---- MODULE Spec2Model ----
(***************************************************************************)
(* Model of crypto_data.py: the retrying HTTP session, the coin universe   *)
(* resolver, the record normalizer (process_data), the per-coin            *)
(* orchestrator (fetch_coin_data, fetch_max_data) and the batch driver     *)
(* (main).  The upstream API, the clock and the file system are the        *)
(* environment: their answers are drawn nondeterministically.              *)
(***************************************************************************)
EXTENDS Integers, Sequences, FiniteSets, TLC

(***************************************************************************)
(* Program constants.                                                      *)
(***************************************************************************)
MAX_RETRIES == 3

RETRY_STATUS_CODES == {429, 500, 502, 503, 504}

\* days=365, the default window of fetch_coin_data; main passes no other.
DEFAULT_DAYS == 365

\* timedelta(days=365) in fetch_max_data.
CUTOFF_DAYS == 365

(***************************************************************************)
(* Bounds of the model.                                                    *)
(***************************************************************************)
\* Longest series (prices, market_caps, total_volumes) the API returns.
MaxLen == 2

\* Longest coin universe the resolver returns.
MaxCoins == 2

\* Resolution of a timestamp within one day (the API's is 86,400,000 ms).
TicksPerDay == 2

\* The interpreter's limit on nested calls (sys.getrecursionlimit(), which
\* the program never changes), counted in fetch_coin_data frames.
RecursionLimit == 3

(***************************************************************************)
(* The environment's values.                                               *)
(***************************************************************************)
Coins == {"bitcoin", "ethereum"}

\* Any list of identifiers the markets endpoint can answer, a repeated
\* identifier included; get_top_100_coin_ids returns [] on any failure.
get_top_100_coin_ids ==
    UNION {[1..n -> Coins] : n \in 0..MaxCoins}

\* datetime.now(), as a calendar day and a time of day.
Now == [day |-> 1000, tod |-> 1]

\* Timestamps the API answers with: one older than the 365-day window, and
\* two on one calendar day inside it (but more than 30 days back).
Timestamps ==
    { (Now.day - 400) * TicksPerDay,
      (Now.day - 100) * TicksPerDay,
      (Now.day - 100) * TicksPerDay + 1 }

\* Windows a caller may pass to fetch_coin_data.
DaysArgs == {30, DEFAULT_DAYS}

\* The API answers a series in strictly ascending timestamp order.
TsSeqs ==
    { s \in UNION {[1..n -> Timestamps] : n \in 0..MaxLen} :
        \A k \in 1..(Len(s) - 1) : s[k] < s[k + 1] }

\* Points are [timestamp, value] pairs; the values tell the series and the
\* position apart.
Series(n, base) == [k \in 1..n |-> <<k, base + k>>]

PricePoints(s) == [k \in 1..Len(s) |-> <<s[k], k>>]

\* The JSON object of a successful answer.  has_prices is whether the key
\* "prices" is there; market_caps and total_volumes are read with
\* data.get(key, []), so a missing key and an empty list are one value.  The
\* API cuts market_caps and total_volumes from the same samples: they have
\* one length m, which need not be that of prices.
Payload(h, s, m) ==
    [has_prices |-> h, prices |-> PricePoints(s),
     market_caps |-> Series(m, 10), total_volumes |-> Series(m, 20)]

Payloads ==
    { Payload(TRUE, s, m) : s \in TsSeqs \ {<<>>}, m \in 0..MaxLen }
    \cup { Payload(TRUE, <<>>, 0), Payload(FALSE, <<>>, 0) }

NoPayload == Payload(FALSE, <<>>, 0)

\* Statuses raise_for_status turns into HTTPError.
ErrorStatuses == RETRY_STATUS_CODES \cup {404}

(***************************************************************************)
(* Values of the program.                                                  *)
(***************************************************************************)
\* pd.NA, and a populated cell.
NA == <<>>

Some(v) == <<v>>

\* What a call yields: a table, None, or an exception leaving it.
Table(rows) == [kind |-> "table", rows |-> rows]

None == [kind |-> "none", rows |-> <<>>]

Raised == [kind |-> "raised", rows |-> <<>>]

NoRet == [kind |-> "pending", rows |-> <<>>]

\* pd.to_datetime(ts, unit="ms"): the instant, its time of day kept.
to_datetime(ts) == [day |-> ts \div TicksPerDay, tod |-> ts % TicksPerDay]

\* datetime >= datetime.
DateGE(a, b) == a.day > b.day \/ (a.day = b.day /\ a.tod >= b.tod)

\* not data.get("prices"): the key is missing or its list is empty.
NoPrices(p) == ~p.has_prices \/ p.prices = <<>>

\* df[col] = [x[1] for x in series] if series else pd.NA
Column(series, n) ==
    IF series = <<>> THEN [k \in 1..n |-> NA]
    ELSE [k \in 1..Len(series) |-> Some(series[k][2])]

\* Assigning a list to a column of a frame of n rows raises ValueError unless
\* the list has n values; the scalar pd.NA fits any frame.
ColumnFits(series, n) == series = <<>> \/ Len(series) = n

\* process_data.  A missing "prices" is the KeyError it catches (None); a
\* series of another length than prices is a ValueError it does not catch.
\* Both callers pass it a payload with at least one price point.
process_data(p, coin) ==
    IF ~p.has_prices THEN None
    ELSE LET n == Len(p.prices) IN
         IF ~ColumnFits(p.market_caps, n) \/ ~ColumnFits(p.total_volumes, n)
         THEN Raised
         ELSE Table([k \in 1..n |->
                [date |-> to_datetime(p.prices[k][1]),
                 coin |-> coin,
                 price |-> p.prices[k][2],
                 market_cap |-> Column(p.market_caps, n)[k],
                 volume |-> Column(p.total_volumes, n)[k]]])

\* df[df["date"] >= cutoff]
RECURSIVE FilterFrom(_, _)
FilterFrom(rows, cutoff) ==
    IF rows = <<>> THEN <<>>
    ELSE IF DateGE(Head(rows).date, cutoff)
         THEN <<Head(rows)>> \o FilterFrom(Tail(rows), cutoff)
         ELSE FilterFrom(Tail(rows), cutoff)

\* datetime.now() - timedelta(days=365)
cutoff_date == [day |-> Now.day - CUTOFF_DAYS, tod |-> Now.tod]

\* pd.concat(dfs, ignore_index=True)
RECURSIVE concat(_)
concat(tables) ==
    IF tables = <<>> THEN <<>> ELSE Head(tables) \o concat(Tail(tables))

(***************************************************************************)
(* State.                                                                  *)
(***************************************************************************)
VARIABLES
    pc,           \* where the program is
    coin_ids,     \* main: the resolved universe
    i,            \* main: index of the coin being processed (enumerate, 1..)
    dfs,          \* main: the collected tables
    coin_id,      \* fetch_coin_data: its coin
    days,         \* fetch_coin_data: its window
    depth,        \* nested fetch_coin_data frames
    tries,        \* the adapter's retries spent on the current request
    data,         \* the JSON object last read
    ret,          \* what the orchestrator call yields to its caller
    path,         \* how the bounded answer was taken: direct, empty, missing
    last,         \* the last outcome that surfaced to the orchestrator
    answers,      \* the API's answers to this call, summed up (Answered)
    cooldowns,    \* time.sleep(10) performed in this call
    delays,       \* time.sleep(REQUEST_DELAY) performed in the run
    fetched,      \* coins passed to fetch_coin_data, in order
    results,      \* what each orchestrator call yielded, in order
    to_csv_calls, \* the tables handed to to_csv
    csv_saved     \* whether to_csv wrote the file

vars == <<pc, coin_ids, i, dfs, coin_id, days, depth, tries, data, ret, path,
          last, answers, cooldowns, delays, fetched, results,
          to_csv_calls, csv_saved>>

mainVars == <<coin_ids, i, dfs, delays, fetched, results, to_csv_calls,
              csv_saved>>

callVars == <<coin_id, days>>

Init ==
    /\ pc = "start"
    /\ coin_ids = <<>>
    /\ i = 1
    /\ dfs = <<>>
    /\ coin_id = "bitcoin"
    /\ days = DEFAULT_DAYS
    /\ depth = 0
    /\ tries = 0
    /\ data = NoPayload
    /\ ret = NoRet
    /\ path = "none"
    /\ last = "none"
    /\ answers = "none"
    /\ cooldowns = 0
    /\ delays = 0
    /\ fetched = <<>>
    /\ results = <<>>
    /\ to_csv_calls = <<>>
    /\ csv_saved = FALSE

\* A direct call fetch_coin_data(coin_id, days) with any window.
InitFetch ==
    /\ pc = "get"
    /\ coin_ids = <<>>
    /\ i = 1
    /\ dfs = <<>>
    /\ coin_id \in Coins
    /\ days \in DaysArgs
    /\ depth = 1
    /\ tries = 0
    /\ data = NoPayload
    /\ ret = NoRet
    /\ path = "none"
    /\ last = "none"
    /\ answers = "none"
    /\ cooldowns = 0
    /\ delays = 0
    /\ fetched = <<>>
    /\ results = <<>>
    /\ to_csv_calls = <<>>
    /\ csv_saved = FALSE

\* The summary of the API's answers after one more: "none" before any,
\* "good" while all were 200s with price points, "one429" when exactly one of
\* them was a 429 and the others were such 200s, "other" otherwise.
Answered(kind) ==
    CASE kind = "good" -> (IF answers = "none" THEN "good" ELSE answers)
      [] kind = "429"  -> (IF answers \in {"none", "good"} THEN "one429"
                           ELSE "other")
      [] OTHER         -> "other"

StatusKind(s) == IF s = 429 THEN "429" ELSE "bad"

PayloadKind(p) == IF NoPrices(p) THEN "bad" ELSE "good"


(***************************************************************************)
(* The session: session.get through the mounted HTTPAdapter.               *)
(***************************************************************************)
\* The API answers a status of the forcelist and the adapter, with retries
\* left, backs off and sends the request again; the caller sees nothing.
adapter_retry ==
    /\ pc \in {"get", "get_max"}
    /\ tries < MAX_RETRIES
    /\ \E s \in RETRY_STATUS_CODES : answers' = Answered(StatusKind(s))
    /\ tries' = tries + 1
    /\ UNCHANGED <<pc, depth, data, ret, path, last, cooldowns>>
    /\ UNCHANGED callVars
    /\ UNCHANGED mainVars

\* An error status reaches the caller as a response only when the adapter
\* does not retry it: it is outside the forcelist, or the retries are spent.
\* (With the retries spent the adapter may raise RetryError instead of
\* handing the response over; that outcome is the callers' exception step.)
Surfaces(s) == s \notin RETRY_STATUS_CODES \/ tries = MAX_RETRIES

(***************************************************************************)
(* fetch_coin_data                                                         *)
(***************************************************************************)
\* What the try block yields from the value of process_data: an exception
\* leaving process_data is caught by "except Exception" and becomes None.
Caught(r) == IF r.kind = "raised" THEN None ELSE r

\* Lines 74-83: a 200 answer.  Without price points (the key missing, or its
\* list empty) the call goes on to fetch_max_data.
fetch_coin_data_ok ==
    /\ pc = "get"
    /\ \E p \in Payloads :
        /\ data' = p
        /\ answers' = Answered(PayloadKind(p))
        /\ IF NoPrices(p)
           THEN /\ path' = (IF p.has_prices THEN "empty" ELSE "missing")
                /\ pc' = "get_max"
                /\ depth' = depth
                /\ ret' = ret
           ELSE /\ path' = "direct"
                /\ pc' = "return"
                /\ depth' = 0
                /\ ret' = Caught(process_data(p, coin_id))
    /\ tries' = 0
    /\ last' = "ok"
    /\ UNCHANGED cooldowns
    /\ UNCHANGED callVars
    /\ UNCHANGED mainVars

\* Lines 75, 85-90, 94: raise_for_status raises HTTPError.  A 429 goes to the
\* cooldown; any other status is logged and the call returns None.
fetch_coin_data_http_error ==
    /\ pc = "get"
    /\ \E s \in ErrorStatuses :
        /\ Surfaces(s)
        /\ answers' = Answered(StatusKind(s))
        /\ IF s = 429
           THEN /\ last' = "429"
                /\ pc' = "cooldown"
                /\ depth' = depth
                /\ ret' = ret
           ELSE /\ last' = "http"
                /\ pc' = "return"
                /\ depth' = 0
                /\ ret' = None
    /\ tries' = 0
    /\ UNCHANGED <<data, path, cooldowns>>
    /\ UNCHANGED callVars
    /\ UNCHANGED mainVars

\* Lines 91-94: session.get or response.json() raises something that is not
\* an HTTPError (a connection error, the adapter's RetryError once its
\* retries are spent, invalid JSON): logged, and the call returns None.
fetch_coin_data_exception ==
    /\ pc = "get"
    /\ last' = "exception"
    /\ answers' = Answered("bad")
    /\ ret' = None
    /\ pc' = "return"
    /\ depth' = 0
    /\ tries' = 0
    /\ UNCHANGED <<data, path, cooldowns>>
    /\ UNCHANGED callVars
    /\ UNCHANGED mainVars

\* A variant with a retry counter of its own: after one cooldown and retry
\* the second 429 is given up on and the call returns None.
fetch_coin_data_cooldown_counted ==
    /\ pc = "cooldown"
    /\ cooldowns' = cooldowns + 1
    /\ IF cooldowns < 1
       THEN /\ depth' = depth + 1
            /\ pc' = "get"
            /\ ret' = ret
       ELSE /\ depth' = 0
            /\ pc' = "return"
            /\ ret' = None
    /\ tries' = 0
    /\ UNCHANGED <<data, path, last, answers>>
    /\ UNCHANGED callVars
    /\ UNCHANGED mainVars

\* Lines 87-89: time.sleep(10), then return fetch_coin_data(coin_id, days):
\* the value of the nested call is passed up unchanged through every frame.
\* The call needs a frame: at the interpreter's limit it raises
\* RecursionError inside the except clause, which no clause of this try
\* catches, so it leaves every enclosing frame (each is inside its own
\* except clause) and reaches the caller of the outermost one.
fetch_coin_data_cooldown ==
    /\ pc = "cooldown"
    /\ cooldowns' = cooldowns + 1
    /\ IF depth < RecursionLimit
       THEN /\ depth' = depth + 1
            /\ tries' = 0
            /\ pc' = "get"
            /\ ret' = ret
       ELSE /\ depth' = 0
            /\ tries' = 0
            /\ pc' = "return"
            /\ ret' = Raised
    /\ UNCHANGED <<data, path, last, answers>>
    /\ UNCHANGED callVars
    /\ UNCHANGED mainVars

(***************************************************************************)
(* fetch_max_data                                                          *)
(***************************************************************************)
\* The value of fetch_max_data for a 200 answer (lines 104-112).
MaxResult(p, coin) ==
    IF NoPrices(p) THEN None
    ELSE LET df == process_data(p, coin) IN
         IF df.kind = "table" THEN Table(FilterFrom(df.rows, cutoff_date))
         ELSE None

fetch_max_data_ok ==
    /\ pc = "get_max"
    /\ \E p \in Payloads :
        /\ data' = p
        /\ answers' = Answered(PayloadKind(p))
        /\ ret' = MaxResult(p, coin_id)
    /\ last' = "ok"
    /\ pc' = "return"
    /\ depth' = 0
    /\ tries' = 0
    /\ UNCHANGED <<path, cooldowns>>
    /\ UNCHANGED callVars
    /\ UNCHANGED mainVars

\* Lines 114-116: whatever is raised, an HTTPError of any status included,
\* is logged and fetch_max_data returns None.
fetch_max_data_error ==
    /\ pc = "get_max"
    /\ \/ \E s \in ErrorStatuses :
            /\ Surfaces(s)
            /\ answers' = Answered(StatusKind(s))
            /\ last' = (IF s = 429 THEN "429" ELSE "http")
       \/ /\ last' = "exception"
          /\ answers' = Answered("bad")
    /\ ret' = None
    /\ pc' = "return"
    /\ depth' = 0
    /\ tries' = 0
    /\ UNCHANGED <<data, path, cooldowns>>
    /\ UNCHANGED callVars
    /\ UNCHANGED mainVars

(***************************************************************************)
(* main                                                                    *)
(***************************************************************************)
\* Lines 146-154: resolve the universe; an empty one ends the run.
main_start ==
    /\ pc = "start"
    /\ \E ids \in get_top_100_coin_ids :
        /\ coin_ids' = ids
        /\ pc' = (IF ids = <<>> THEN "done" ELSE "loop")
    /\ UNCHANGED <<i, dfs, delays, fetched, results, to_csv_calls, csv_saved>>
    /\ UNCHANGED <<depth, tries, data, ret, path, last, answers,
                   cooldowns>>
    /\ UNCHANGED callVars

\* Lines 155-158: the next coin goes to fetch_coin_data, days defaulted.
main_call ==
    /\ pc = "loop"
    /\ i <= Len(coin_ids)
    /\ coin_id' = coin_ids[i]
    /\ days' = DEFAULT_DAYS
    /\ fetched' = Append(fetched, coin_ids[i])
    /\ depth' = 1
    /\ tries' = 0
    /\ pc' = "get"
    /\ UNCHANGED <<coin_ids, i, dfs, delays, results, to_csv_calls, csv_saved>>
    /\ UNCHANGED <<data, ret, path, last, answers, cooldowns>>

\* The caller has the call's value and the call's bookkeeping starts afresh.
CallOver ==
    /\ UNCHANGED <<depth, tries>>
    /\ data' = NoPayload
    /\ ret' = NoRet
    /\ path' = "none"
    /\ last' = "none"
    /\ answers' = "none"
    /\ cooldowns' = 0

\* Lines 158-165: the call returned; a table is collected, None is reported,
\* and the driver sleeps REQUEST_DELAY.
main_collect ==
    /\ pc = "return"
    /\ ret.kind \in {"table", "none"}
    /\ dfs' = (IF ret.kind = "table" THEN Append(dfs, ret.rows) ELSE dfs)
    /\ delays' = delays + 1
    /\ results' = Append(results, ret)
    /\ i' = i + 1
    /\ pc' = "loop"
    /\ CallOver
    /\ UNCHANGED <<coin_ids, fetched, to_csv_calls, csv_saved>>
    /\ UNCHANGED callVars

\* A variant whose try encloses the loop: an exception of one coin ends it.
main_except_ends_loop ==
    /\ pc = "return"
    /\ ret.kind = "raised"
    /\ results' = Append(results, ret)
    /\ i' = Len(coin_ids) + 1
    /\ pc' = "loop"
    /\ CallOver
    /\ UNCHANGED <<coin_ids, dfs, delays, fetched, to_csv_calls, csv_saved>>
    /\ UNCHANGED callVars

\* Lines 158, 166-167: the call raised; the rest of the try block, the sleep
\* included, is skipped and the loop goes on.
main_except ==
    /\ pc = "return"
    /\ ret.kind = "raised"
    /\ results' = Append(results, ret)
    /\ i' = i + 1
    /\ pc' = "loop"
    /\ CallOver
    /\ UNCHANGED <<coin_ids, dfs, delays, fetched, to_csv_calls, csv_saved>>
    /\ UNCHANGED callVars

\* A variant that writes whatever was collected, nothing included.
main_save_unconditional ==
    /\ pc = "loop"
    /\ i > Len(coin_ids)
    /\ to_csv_calls' = Append(to_csv_calls, concat(dfs))
    /\ csv_saved' \in BOOLEAN
    /\ pc' = "done"
    /\ UNCHANGED <<coin_ids, i, dfs, delays, fetched, results>>
    /\ UNCHANGED <<depth, tries, data, ret, path, last, answers,
                   cooldowns>>
    /\ UNCHANGED callVars

\* Lines 170-178: after the loop, write the concatenation if anything was
\* collected; to_csv may fail, which is logged.
main_save ==
    /\ pc = "loop"
    /\ i > Len(coin_ids)
    /\ IF dfs # <<>>
       THEN /\ to_csv_calls' = Append(to_csv_calls, concat(dfs))
            /\ csv_saved' \in BOOLEAN
       ELSE UNCHANGED <<to_csv_calls, csv_saved>>
    /\ pc' = "done"
    /\ UNCHANGED <<coin_ids, i, dfs, delays, fetched, results>>
    /\ UNCHANGED <<depth, tries, data, ret, path, last, answers,
                   cooldowns>>
    /\ UNCHANGED callVars

(***************************************************************************)
(* Specifications.                                                         *)
(***************************************************************************)
Next ==
    \/ main_start
    \/ main_call
    \/ adapter_retry
    \/ fetch_coin_data_ok
    \/ fetch_coin_data_http_error
    \/ fetch_coin_data_exception
    \/ fetch_coin_data_cooldown
    \/ fetch_max_data_ok
    \/ fetch_max_data_error
    \/ main_collect
    \/ main_except
    \/ main_save

\* One run of main.
Spec == Init /\ [][Next]_vars

NextFetch ==
    \/ adapter_retry
    \/ fetch_coin_data_ok
    \/ fetch_coin_data_http_error
    \/ fetch_coin_data_exception
    \/ fetch_coin_data_cooldown
    \/ fetch_max_data_ok
    \/ fetch_max_data_error

\* One call of fetch_coin_data with any window.
SpecFetch == InitFetch /\ [][NextFetch]_vars


(***************************************************************************)
(* Properties.                                                             *)
(***************************************************************************)
\* The tables among the values the orchestrator calls yielded, in order.
RECURSIVE TablesOf(_)
TablesOf(rs) ==
    IF rs = <<>> THEN <<>>
    ELSE IF Head(rs).kind = "table"
         THEN <<Head(rs).rows>> \o TablesOf(Tail(rs))
         ELSE TablesOf(Tail(rs))

IsPrefix(s, t) == Len(s) <= Len(t) /\ s = SubSeq(t, 1, Len(s))

\* C1: per-coin isolation.  A coin whose call returned None or raised does
\* not stop the loop: the coins are passed to fetch_coin_data one by one in
\* universe order, at the end of the run every coin of the universe has been
\* passed, and the table handed to to_csv is the concatenation of the
\* tables of all the calls that returned one.
C1_PerCoinIsolation ==
    /\ IsPrefix(fetched, coin_ids)
    /\ dfs = TablesOf(results)
    /\ (pc = "done" /\ coin_ids # <<>>) =>
         /\ fetched = coin_ids
         /\ Len(results) = Len(coin_ids)
         /\ dfs # <<>> => to_csv_calls = <<concat(TablesOf(results))>>

\* A run whose first coin raised and whose second coin's table was written.
C1_Witness ==
    /\ pc = "done"
    /\ Len(results) >= 2
    /\ results[1].kind = "raised"
    /\ results[2].kind = "table"
    /\ results[2].rows # <<>>
    /\ to_csv_calls = <<results[2].rows>>

\* C2: to_csv is called if and only if a call returned a table: never for
\* an empty universe (no call is made then), never when every call returned
\* None or raised, and otherwise exactly once, after every coin has been
\* processed, with the collected tables concatenated in processing order.
C2_WriteIffCollected ==
    /\ Len(to_csv_calls) <= 1
    /\ csv_saved => to_csv_calls # <<>>
    /\ to_csv_calls # <<>> =>
         /\ pc = "done"
         /\ Len(results) = Len(coin_ids)
         /\ to_csv_calls[1] = concat(TablesOf(results))
    /\ pc = "done" =>
         (to_csv_calls # <<>>
            <=> \E k \in 1..Len(results) : results[k].kind = "table")
    /\ (pc = "done" /\ coin_ids = <<>>) =>
         (fetched = <<>> /\ results = <<>> /\ to_csv_calls = <<>>)

\* A run that collected two non-empty tables and wrote them in order.
C2_Witness ==
    /\ pc = "done"
    /\ Len(results) = 2
    /\ results[1].kind = "table" /\ results[1].rows # <<>>
    /\ results[2].kind = "table" /\ results[2].rows # <<>>
    /\ results[1].rows # results[2].rows
    /\ Len(to_csv_calls) = 1
    /\ csv_saved


\* now - window_days, for the window the call was given.
WindowStart == [day |-> Now.day - days, tod |-> Now.tod]

\* C3: fallback invariant.  When the bounded answer is a success with zero
\* price points and the max-range answer normalizes to a table, the value
\* of fetch_coin_data(coin_id, days) is that table filtered to the rows
\* whose date is >= now - days.
C3_FallbackInvariant ==
    (/\ pc = "return"
     /\ path = "empty"
     /\ last = "ok"
     /\ ~NoPrices(data)
     /\ process_data(data, coin_id).kind = "table")
    => ret = Table(FilterFrom(process_data(data, coin_id).rows, WindowStart))

\* Normalization with short series tolerated: one row per price point, the
\* first M cells of a column populated from a series of M points, the
\* others null.
ClaimedColumn(series, n) ==
    [k \in 1..n |-> IF k <= Len(series) THEN Some(series[k][2]) ELSE NA]

ClaimedTable(p, coin) ==
    Table([k \in 1..Len(p.prices) |->
        [date |-> to_datetime(p.prices[k][1]),
         coin |-> coin,
         price |-> p.prices[k][2],
         market_cap |-> ClaimedColumn(p.market_caps, Len(p.prices))[k],
         volume |-> ClaimedColumn(p.total_volumes, Len(p.prices))[k]]])

\* C4: a payload with N price points and M <= N market-cap points (and
\* likewise volume points) normalizes to N rows with the first M cells
\* populated and the rest null; the coin is never absent for it.
C4_PartialSeries ==
    (/\ pc = "return"
     /\ path = "direct"
     /\ Len(data.market_caps) <= Len(data.prices)
     /\ Len(data.total_volumes) <= Len(data.prices))
    => ret = ClaimedTable(data, coin_id)

\* C5: scenario D.  The API answered this coin's request with 429 exactly
\* once and with a 200 carrying price points every other time: the call
\* yields the coin's table and the orchestrator slept its cooldown exactly
\* once.
C5_ScenarioD ==
    (pc = "return" /\ answers = "one429")
    => (ret.kind = "table" /\ cooldowns = 1)

\* C6: between the end of one coin's call and the start of the next the
\* driver sleeps REQUEST_DELAY exactly once, however the call ended: when
\* the next coin is about to be passed, there have been as many delays as
\* calls.
C6_DelayBetweenCalls ==
    (pc = "loop" /\ i <= Len(coin_ids)) => delays = Len(results)

\* C7: the accumulated table holds at most one record per (coin, calendar
\* date), the calendar date being the timestamp without its time of day.
C7_OneRecordPerCoinDate ==
    LET t == concat(dfs) IN
    \A j, k \in 1..Len(t) :
        (j # k) => ~(t[j].coin = t[k].coin /\ t[j].date.day = t[k].date.day)

\* C8: when the successful bounded answer lacks the "prices" field the call
\* returns None, and no table comes from any other request.
C8_MissingPricesIsAbsent ==
    (pc = "return" /\ path = "missing") => ret = None

C10_429NeverAbsent ==
    ~(pc = "return" /\ ret = None /\ last = "429")

====
